---------------------------- MODULE Spec2Model ----------------------------
(* A model of osrs_synth_extractor.py: the index reader, the sector-chain   *)
(* reassembler, the JS5 container codec, the bulk loop of dump_index and    *)
(* the exit behaviour of main.  Files are sequences of bytes (0..255); an   *)
(* optional value is a sequence of length 0 (None) or 1.                    *)
EXTENDS Integers, Sequences, FiniteSets, TLC

\* ------------------------------------------------------------------------
\* Program constants (lines 11-13).
SECTOR_SIZE == 520
HEADER_SIZE == 8
DATA_SIZE == SECTOR_SIZE - HEADER_SIZE

\* ------------------------------------------------------------------------
\* Bounds of the model.
\* Highest sector id present in a data file of the chain family.
MaxSector == 2
\* Bytes of the partial sector that ends a data file of the chain family.
ChainPartial == 100
\* Highest group id that has a record in an index file of the bulk family.
MaxGroup == 1
\* Largest value of a length field in a container of the codec family.
MaxLenField == 5

\* ------------------------------------------------------------------------
\* Python values.
None == <<>>
Some(x) == <<x>>
Min(a, b) == IF a <= b THEN a ELSE b
Max(a, b) == IF a >= b THEN a ELSE b

\* A file that does not exist.
Absent == [exists |-> FALSE, bytes |-> <<>>]
File(b) == [exists |-> TRUE, bytes |-> b]

\* s[a:b] for 0 <= a, 0 <= b: clamped to the length of s, never an error.
Slice(s, a, b) ==
  IF a >= Min(b, Len(s)) THEN <<>> ELSE SubSeq(s, a + 1, Min(b, Len(s)))

\* f.seek(offset); f.read(n): the bytes that exist from offset on, at most n.
seek_read(bytes, offset, n) == Slice(bytes, offset, offset + n)

\* A faulty variant: every sector gives all 512 payload bytes, whatever remains.
to_take_full(remaining) == DATA_SIZE

\* min(remaining, DATA_SIZE), line 51.
to_take_of(remaining) == Min(remaining, DATA_SIZE)

\* A faulty variant: the three bytes read little-endian.
read_medium_le(b) == b[3] * 65536 + b[2] * 256 + b[1]

\* Line 16.
read_medium(b) == b[1] * 65536 + b[2] * 256 + b[3]

\* struct.unpack(">I", b)[0]: an error unless b holds exactly 4 bytes.
unpack_u32(b) ==
  IF Len(b) # 4 THEN None
  ELSE Some(b[1] * 16777216 + b[2] * 65536 + b[3] * 256 + b[4])

\* ------------------------------------------------------------------------
\* read_index_entry, lines 18-28.  f.seek of a negative offset raises OSError.
read_index_entry(idx_bytes, group_id) ==
  IF group_id < 0 THEN [kind |-> "raise", exc |-> "OSError"]
  ELSE LET entry == seek_read(idx_bytes, group_id * 6, 6) IN
       IF Len(entry) < 6 THEN [kind |-> "None"]
       ELSE LET file_size == read_medium(Slice(entry, 0, 3))
                first_sector == read_medium(Slice(entry, 3, 6))
            IN IF file_size = 0 THEN [kind |-> "None"]
               ELSE [kind |-> "entry", file_size |-> file_size,
                     first_sector |-> first_sector]

\* ------------------------------------------------------------------------
\* read_group_from_dat2, lines 30-57.  The frame of the call: its parameters
\* file_size and first_sector and the locals of lines 37-40.
walk_start(file_size, first_sector) ==
  [file_size |-> file_size, first_sector |-> first_sector,
   buf |-> <<>>, remaining |-> file_size, sector_id |-> first_sector,
   chunk |-> 0, raised |-> FALSE]

\* A faulty variant: the loop goes on until the chain ends, whatever remains.
walk_continues_to_chain_end(w) == ~w.raised /\ w.sector_id # 0

\* The loop condition, line 43.
walk_continues(w) == ~w.raised /\ w.remaining > 0 /\ w.sector_id # 0

\* A faulty variant: the payload is taken one byte early, from inside the header.
walk_step_early_payload(dat2_bytes, w) ==
  LET raw == seek_read(dat2_bytes, w.sector_id * SECTOR_SIZE, SECTOR_SIZE) IN
  IF Len(raw) < SECTOR_SIZE THEN [w EXCEPT !.raised = TRUE]
  ELSE LET next_sector == read_medium(Slice(raw, 4, 7))
           data == Slice(raw, HEADER_SIZE - 1, HEADER_SIZE - 1 + DATA_SIZE)
           to_take == to_take_of(w.remaining)
       IN [w EXCEPT !.buf = w.buf \o Slice(data, 0, to_take),
                    !.remaining = w.remaining - to_take,
                    !.sector_id = next_sector,
                    !.chunk = w.chunk + 1]

\* One iteration of the loop, lines 44-55.
walk_step(dat2_bytes, w) ==
  LET raw == seek_read(dat2_bytes, w.sector_id * SECTOR_SIZE, SECTOR_SIZE) IN
  IF Len(raw) < SECTOR_SIZE THEN [w EXCEPT !.raised = TRUE]
  ELSE LET next_sector == read_medium(Slice(raw, 4, 7))
           data == Slice(raw, HEADER_SIZE, HEADER_SIZE + DATA_SIZE)
           to_take == to_take_of(w.remaining)
       IN [w EXCEPT !.buf = w.buf \o Slice(data, 0, to_take),
                    !.remaining = w.remaining - to_take,
                    !.sector_id = next_sector,
                    !.chunk = w.chunk + 1]

\* The whole call: the frame when the loop has ended (or raised IOError).
RECURSIVE walk_run(_, _)
walk_run(dat2_bytes, w) ==
  IF walk_continues(w) THEN walk_run(dat2_bytes, walk_step(dat2_bytes, w)) ELSE w

read_group_from_dat2(dat2_bytes, file_size, first_sector) ==
  LET w == walk_run(dat2_bytes, walk_start(file_size, first_sector)) IN
  IF w.raised THEN [kind |-> "raise", exc |-> "IOError"]
  ELSE [kind |-> "bytes", data |-> w.buf]

\* ------------------------------------------------------------------------
\* A faulty variant: the uncompressed length of a compressed container is read from
\* the first 4-byte field (bytes 1..4) instead of the second.
parse_js5_container_first_field(buf) ==
  IF Len(buf) = 0 THEN [kind |-> "raise", exc |-> "IndexError"]
  ELSE
    LET compression_type == buf[1]
        comp_len == unpack_u32(Slice(buf, 1, 5))
    IN IF comp_len = None THEN [kind |-> "raise", exc |-> "struct.error"]
       ELSE
         LET ulen == IF compression_type = 0 THEN comp_len
                     ELSE unpack_u32(Slice(buf, 1, 5))
             short == compression_type # 0 /\ Len(buf) < 9
             offset == IF compression_type = 0 THEN 5 ELSE 9
         IN IF short THEN [kind |-> "raise", exc |-> "struct.error"]
            ELSE [kind |-> "parsed",
                  compression_type |-> compression_type,
                  uncompressed_len |-> ulen[1],
                  payload |-> Slice(buf, offset, offset + comp_len[1]),
                  remainder |-> Slice(buf, offset + comp_len[1], Len(buf))]

\* parse_js5_container, lines 59-72.  buf[0] of an empty buffer raises
\* IndexError; struct.unpack of fewer than 4 bytes raises struct.error.
parse_js5_container(buf) ==
  IF Len(buf) = 0 THEN [kind |-> "raise", exc |-> "IndexError"]
  ELSE
    LET compression_type == buf[1]
        comp_len == unpack_u32(Slice(buf, 1, 5))
    IN IF comp_len = None THEN [kind |-> "raise", exc |-> "struct.error"]
       ELSE
         LET ulen == IF compression_type = 0 THEN comp_len
                     ELSE unpack_u32(Slice(buf, 5, 9))
             offset == IF compression_type = 0 THEN 5 ELSE 9
         IN IF ulen = None THEN [kind |-> "raise", exc |-> "struct.error"]
            ELSE [kind |-> "parsed",
                  compression_type |-> compression_type,
                  uncompressed_len |-> ulen[1],
                  payload |-> Slice(buf, offset, offset + comp_len[1]),
                  remainder |-> Slice(buf, offset + comp_len[1], Len(buf))]

\* ------------------------------------------------------------------------
\* The library decompressors of lines 82 and 84, which are not code of the
\* repository.  Each is represented by a small decoder of the same shape: an
\* empty input gives an empty output, a stream must open with the format's
\* magic byte, its body is a list of (count, value) runs, and anything else
\* is an error.  The output length is in general not the input length.
BZ_MAGIC == 66
GZ_MAGIC == 31

RECURSIVE expand_runs(_)
expand_runs(s) ==
  IF Len(s) < 2 THEN <<>>
  ELSE [i \in 1..s[1] |-> s[2]] \o expand_runs(Slice(s, 2, Len(s)))

lib_decompress(magic, exc, payload) ==
  IF Len(payload) = 0 THEN [kind |-> "bytes", data |-> <<>>]
  ELSE IF payload[1] # magic \/ (Len(payload) - 1) % 2 # 0
       THEN [kind |-> "raise", exc |-> exc]
       ELSE [kind |-> "bytes", data |-> expand_runs(Tail(payload))]

bz2_decompress(payload) == lib_decompress(BZ_MAGIC, "OSError", payload)
gzip_decompress(payload) == lib_decompress(GZ_MAGIC, "BadGzipFile", payload)

\* A faulty variant: a length mismatch is an error instead of a warning.
decompress_js5_strict(compression_type, payload, expected_len) ==
  LET r == IF compression_type = 0 THEN [kind |-> "bytes", data |-> payload]
           ELSE IF compression_type = 1 THEN bz2_decompress(payload)
           ELSE IF compression_type = 2 THEN gzip_decompress(payload)
           ELSE [kind |-> "raise", exc |-> "ValueError"]
  IN IF r.kind = "raise" THEN r
     ELSE IF expected_len # None /\ Len(r.data) # expected_len[1]
          THEN [kind |-> "raise", exc |-> "ValueError"]
          ELSE [kind |-> "bytes", data |-> r.data, warned |-> FALSE]

\* decompress_js5, lines 74-91.  warned: the line-89 warning was printed.
decompress_js5(compression_type, payload, expected_len) ==
  LET r == IF compression_type = 0 THEN [kind |-> "bytes", data |-> payload]
           ELSE IF compression_type = 1 THEN bz2_decompress(payload)
           ELSE IF compression_type = 2 THEN gzip_decompress(payload)
           ELSE [kind |-> "raise", exc |-> "ValueError"]
  IN IF r.kind = "raise" THEN r
     ELSE [kind |-> "bytes", data |-> r.data,
           warned |-> (expected_len # None /\ Len(r.data) # expected_len[1])]


\* Lines 112-116 of extract_group: what becomes of the reassembled container.
extract_tail(container, raw) ==
  IF raw THEN [kind |-> "bytes", data |-> container, warned |-> FALSE]
  ELSE LET p == parse_js5_container(container) IN
       IF p.kind = "raise" THEN p
       ELSE decompress_js5(p.compression_type, p.payload, Some(p.uncompressed_len))

\* extract_group, lines 93-116, as one function of the cache.
extract_group(cache, archive_id, group_id, raw) ==
  IF ~cache.idx[archive_id].exists THEN [kind |-> "None"]
  ELSE LET entry == read_index_entry(cache.idx[archive_id].bytes, group_id) IN
       IF entry.kind # "entry" THEN entry
       ELSE LET c == read_group_from_dat2(cache.dat2.bytes, entry.file_size,
                                          entry.first_sector)
            IN IF c.kind = "raise" THEN c ELSE extract_tail(c.data, raw)

\* ------------------------------------------------------------------------
\* get_ids_to_extract, lines 118-136.
RECURSIVE sorted(_)
sorted(S) ==
  IF S = {} THEN <<>>
  ELSE LET m == CHOOSE x \in S : \A y \in S : x <= y
       IN <<m>> \o sorted(S \ {m})

\* list(range(a, b)).
range(a, b) == [i \in 1..Max(b - a, 0) |-> a + i - 1]

\* A faulty variant: the explicit ids are taken as given, neither sorted nor deduplicated.
get_ids_as_given(idx_bytes, ids, start_id, end_id, extract_all) ==
  IF ids # <<>> THEN ids
  ELSE IF extract_all \/ (start_id = None /\ end_id = None)
       THEN LET max_id == (Len(idx_bytes) \div 6) - 1 IN range(0, max_id + 1)
       ELSE LET start == IF start_id # None THEN start_id[1] ELSE 0
                end == IF end_id # None THEN end_id[1] ELSE start
            IN range(start, end + 1)

get_ids_to_extract(idx_bytes, ids, start_id, end_id, extract_all) ==
  IF ids # <<>> THEN sorted({ids[i] : i \in 1..Len(ids)})
  ELSE IF extract_all \/ (start_id = None /\ end_id = None)
       THEN LET max_id == (Len(idx_bytes) \div 6) - 1 IN range(0, max_id + 1)
       ELSE LET start == IF start_id # None THEN start_id[1] ELSE 0
                end == IF end_id # None THEN end_id[1] ELSE start
            IN range(start, end + 1)

\* Lines 175-177: the output file of a group, named by archive, group id and
\* extension, and out_path.write_bytes(data).
out_path(archive_id, group_id, raw) ==
  <<archive_id, group_id, IF raw THEN ".bin" ELSE ".synth">>

\* A faulty variant: the bytes go to the data file of the cache.
write_bytes_to_dat2(f, path, bytes) == [f EXCEPT !.dat2 = File(bytes)]

write_bytes(f, path, bytes) == [f EXCEPT !.out = (path :> bytes) @@ @]

\* ------------------------------------------------------------------------
\* State.
VARIABLES
  fs,               \* the file system: cache directory, data file, index files, output files
  args,             \* the parsed command line (after line 200)
  pc,               \* where the program is: main, indices, groups, walk, exit
  archive_k,        \* position of main's loop in args.indices (line 228)
  total_extracted,  \* line 227
  ids_to_extract,   \* line 157
  group_k,          \* position of dump_index's loop in ids_to_extract (line 169)
  extracted,        \* line 168
  written,          \* the paths dump_index has written in the current call
  call,             \* the frame of the last call of extract_group: archive_id, group_id,
                    \* entry (line 105) and parsed (line 115)
  walk,             \* the frame of read_group_from_dat2 (buf, remaining, sector_id, chunk)
  data,             \* what the last call of extract_group returned
  returned,         \* what the last call of dump_index returned
  status,           \* the exit status of the process, once it has one
  raised            \* the exception that ended the process, or "none"

vars == <<fs, args, pc, archive_k, total_extracted, ids_to_extract, group_k,
          extracted, written, call, walk, data, returned, status, raised>>

\* The archive and the group the loops are at.
archive_id == args.indices[archive_k]
group_id == ids_to_extract[group_k]

\* An uncaught exception: nothing in dump_index or main catches one, so the
\* interpreter prints the traceback and the process exits with status 1.
Uncaught(exc) ==
  /\ pc' = "exit"
  /\ status' = Some(1)
  /\ raised' = exc

\* main, lines 202-227.
MainStart ==
  /\ pc = "main"
  /\ IF ~fs.dir \/ ~fs.dat2.exists
     THEN /\ pc' = "exit"
          /\ status' = Some(1)
          /\ UNCHANGED <<archive_k, total_extracted>>
     ELSE /\ pc' = "indices"
          /\ archive_k' = 1
          /\ total_extracted' = 0
          /\ UNCHANGED status
  /\ UNCHANGED <<fs, args, ids_to_extract, group_k, extracted, written, call,
                 walk, data, returned, raised>>

\* main calls dump_index (lines 228-229), which runs to its loop (lines
\* 148-168) or returns 0 at line 152 or 161 (then line 239).
DumpIndexCall ==
  /\ pc = "indices"
  /\ archive_k <= Len(args.indices)
  /\ LET idx == fs.idx[archive_id]
         ids == get_ids_to_extract(idx.bytes, args.ids, args.start_id,
                                   args.end_id, args.extract_all)
     IN IF ~idx.exists \/ Len(ids) = 0
        THEN /\ returned' = Some(0)
             /\ archive_k' = archive_k + 1
             /\ written' = <<>>
             /\ UNCHANGED <<pc, ids_to_extract, group_k, extracted>>
        ELSE /\ pc' = "groups"
             /\ ids_to_extract' = ids
             /\ group_k' = 1
             /\ extracted' = 0
             /\ written' = <<>>
             /\ returned' = None
             /\ UNCHANGED archive_k
  /\ UNCHANGED <<fs, args, total_extracted, call, walk, data, status, raised>>

\* dump_index calls extract_group (lines 169-170), which runs to the loop of
\* read_group_from_dat2 (lines 99-110, 37-42), or returns None (lines 103,
\* 107; then lines 172-173), or raises.
ExtractCall ==
  /\ pc = "groups"
  /\ group_k <= Len(ids_to_extract)
  /\ LET idx == fs.idx[archive_id]
         entry == IF idx.exists THEN read_index_entry(idx.bytes, group_id)
                  ELSE [kind |-> "None"]
     IN /\ call' = [archive_id |-> archive_id, group_id |-> group_id, entry |-> entry,
                     parsed |-> [kind |-> "none"]]
        /\ IF entry.kind = "raise"
           THEN /\ Uncaught(entry.exc)
                /\ data' = entry
                /\ UNCHANGED <<group_k, walk>>
           ELSE IF entry.kind = "None"
           THEN /\ data' = entry
                /\ group_k' = group_k + 1
                /\ UNCHANGED <<pc, walk, status, raised>>
           ELSE /\ pc' = "walk"
                /\ walk' = walk_start(entry.file_size, entry.first_sector)
                /\ UNCHANGED <<group_k, data, status, raised>>
  /\ UNCHANGED <<fs, args, archive_k, total_extracted, ids_to_extract,
                 extracted, written, returned>>

\* One iteration of the loop of read_group_from_dat2, lines 43-55; a short
\* read raises IOError (line 47).
WalkStep ==
  /\ pc = "walk"
  /\ walk_continues(walk)
  /\ LET w == walk_step(fs.dat2.bytes, walk) IN
     IF w.raised
     THEN /\ Uncaught("IOError")
          /\ data' = [kind |-> "raise", exc |-> "IOError"]
          /\ UNCHANGED walk
     ELSE /\ walk' = w
          /\ UNCHANGED <<pc, data, status, raised>>
  /\ UNCHANGED <<fs, args, archive_k, total_extracted, ids_to_extract,
                 group_k, extracted, written, call, returned>>

\* The loop has ended: read_group_from_dat2 returns (line 57), extract_group
\* finishes (lines 112-116) and dump_index writes the file (lines 172-178).
ExtractReturn ==
  /\ pc = "walk"
  /\ ~walk_continues(walk)
  /\ LET r == extract_tail(walk.buf, args.raw) IN
     /\ data' = r
     /\ call' = [call EXCEPT !.parsed = IF args.raw THEN [kind |-> "none"]
                                        ELSE parse_js5_container(walk.buf)]
     /\ IF r.kind = "raise"
        THEN /\ Uncaught(r.exc)
             /\ UNCHANGED <<fs, group_k, extracted, written>>
        ELSE /\ fs' = write_bytes(fs, out_path(archive_id, group_id, args.raw), r.data)
             /\ written' = Append(written, out_path(archive_id, group_id, args.raw))
             /\ extracted' = extracted + 1
             /\ group_k' = group_k + 1
             /\ pc' = "groups"
             /\ UNCHANGED <<status, raised>>
  /\ UNCHANGED <<args, archive_k, total_extracted, ids_to_extract, walk, returned>>

\* dump_index returns its count (lines 180-181) and main adds it (line 239).
DumpIndexReturn ==
  /\ pc = "groups"
  /\ group_k > Len(ids_to_extract)
  /\ returned' = Some(extracted)
  /\ total_extracted' = total_extracted + extracted
  /\ archive_k' = archive_k + 1
  /\ pc' = "indices"
  /\ UNCHANGED <<fs, args, ids_to_extract, group_k, extracted, written, call,
                 walk, data, status, raised>>

\* main returns 0 (lines 241-242).
MainReturn ==
  /\ pc = "indices"
  /\ archive_k > Len(args.indices)
  /\ pc' = "exit"
  /\ status' = Some(0)
  /\ UNCHANGED <<fs, args, archive_k, total_extracted, ids_to_extract, group_k,
                 extracted, written, call, walk, data, returned, raised>>

Next ==
  \/ MainStart
  \/ DumpIndexCall
  \/ ExtractCall
  \/ WalkStep
  \/ ExtractReturn
  \/ DumpIndexReturn
  \/ MainReturn

\* ------------------------------------------------------------------------
\* Input data: how the bytes of a cache are laid out.
medium(n) == <<(n \div 65536) % 256, (n \div 256) % 256, n % 256>>
u32(n) == <<(n \div 16777216) % 256, (n \div 65536) % 256, (n \div 256) % 256, n % 256>>
Zeros(n) == [i \in 1..n |-> 0]

\* A 520-byte sector: 8 header bytes (group id, chunk index, next sector at
\* bytes 4..6, archive id) and 512 payload bytes.
Sector(next, payload) ==
  <<0, 0, 0, 0>> \o medium(next) \o <<0>> \o payload \o Zeros(DATA_SIZE - Len(payload))

\* A 6-byte index record.
IndexRecord(file_size, first_sector) == medium(file_size) \o medium(first_sector)

RECURSIVE Concat(_)
Concat(ss) == IF ss = <<>> THEN <<>> ELSE Head(ss) \o Concat(Tail(ss))

\* The archive ids main accepts (line 187).
Archives == {4, 14, 15}

\* The state of the program before main's first check, over a file system.
Start(f, a) ==
  /\ fs = f
  /\ args = a
  /\ pc = "main"
  /\ archive_k = 0
  /\ total_extracted = 0
  /\ ids_to_extract = <<>>
  /\ group_k = 0
  /\ extracted = 0
  /\ written = <<>>
  /\ call = [archive_id |-> 0, group_id |-> 0, entry |-> [kind |-> "None"],
             parsed |-> [kind |-> "none"]]
  /\ walk = walk_start(0, 0)
  /\ data = [kind |-> "None"]
  /\ returned = None
  /\ status = None
  /\ raised = "none"

Cache(dat2_bytes, idx) ==
  [dir |-> TRUE, dat2 |-> File(dat2_bytes), idx |-> idx, out |-> <<>>]

\* A cache directory that does not exist, and one without its data file.
NoCache == [dir |-> FALSE, dat2 |-> Absent, idx |-> [a \in Archives |-> Absent], out |-> <<>>]
NoDat2 == [dir |-> TRUE, dat2 |-> Absent, idx |-> [a \in Archives |-> File(<<>>)], out |-> <<>>]

DefaultArgs ==
  [indices |-> <<4>>, ids |-> <<>>, start_id |-> None, end_id |-> None,
   extract_all |-> FALSE, raw |-> FALSE]

\* ------------------------------------------------------------------------
\* The chain family: data files of sectors 0..MaxSector with every choice of
\* next-sector pointers (chains, cycles, self-loops, pointers past the end of
\* the file) and a partial sector at the end; one group whose index record
\* holds any of the lengths around the multiples of 512 and any first sector.
ChainFill(s) == [i \in 1..DATA_SIZE |-> (s * 61 + i) % 256]
ChainDat(nx) ==
  Concat([s \in 1..(MaxSector + 1) |->
            IF s = 1 THEN Sector(0, ChainFill(0)) ELSE Sector(nx[s - 1], ChainFill(s - 1))])
  \o Zeros(ChainPartial)
ChainLens ==
  {1, DATA_SIZE * (MaxSector + 1)}
    \cup {DATA_SIZE * k : k \in 1..MaxSector}
    \cup {DATA_SIZE * k + 1 : k \in 1..MaxSector}

InitChain ==
  \/ \E nx \in [1..MaxSector -> 0..(MaxSector + 1)],
        L \in ChainLens, first \in 0..(MaxSector + 2) :
       Start(Cache(ChainDat(nx),
                   [a \in Archives |-> IF a = 4 THEN File(IndexRecord(L, first)) ELSE Absent]),
             [DefaultArgs EXCEPT !.raw = TRUE])
  \/ Start(NoCache, DefaultArgs)

SpecChain == InitChain /\ [][Next]_vars

\* ------------------------------------------------------------------------
\* The data file as the format describes it, read byte by byte.
CeilDiv(a, b) == (a + b - 1) \div b

\* Sector s lies wholly inside the data file and is not the terminator 0.
SectorPresent(dat, s) == s # 0 /\ (s + 1) * SECTOR_SIZE <= Len(dat)

\* The next-sector pointer in the header of sector s (0 when s is not there).
NextOf(dat, s) ==
  IF SectorPresent(dat, s)
  THEN dat[s * SECTOR_SIZE + 5] * 65536 + dat[s * SECTOR_SIZE + 6] * 256
         + dat[s * SECTOR_SIZE + 7]
  ELSE 0

\* The j-th sector of the chain that starts at sector first.
RECURSIVE NthSector(_, _, _)
NthSector(dat, first, j) ==
  IF j <= 1 THEN first ELSE NextOf(dat, NthSector(dat, first, j - 1))

\* The chain of a group of L bytes is well formed and fully present.
WellFormed(dat, L, first) ==
  /\ L >= 1
  /\ \A j \in 1..CeilDiv(L, DATA_SIZE) : SectorPresent(dat, NthSector(dat, first, j))

\* Byte k (from 1) of the group: byte ((k-1) mod 512) of the payload of the
\* sector number ((k-1) div 512) + 1 of its chain.
GroupBytes(dat, L, first) ==
  [k \in 1..L |->
     dat[NthSector(dat, first, ((k - 1) \div DATA_SIZE) + 1) * SECTOR_SIZE
           + HEADER_SIZE + ((k - 1) % DATA_SIZE) + 1]]

\* read_group_from_dat2 has left its loop and is about to return walk.buf.
WalkEnded == pc = "walk" /\ ~walk_continues(walk)

\* C3: for a group of L >= 1 bytes whose chain is well formed and fully
\* present, read_group_from_dat2 does not raise and returns exactly L bytes:
\* the payloads of the chain's sectors in chain order, each giving
\* min(remaining, 512) bytes, read in ceil(L/512) sectors; a length that 512
\* divides takes all 512 bytes of its last sector.
C3_ExactReassembly ==
  (pc \in {"walk", "exit"} /\ WellFormed(fs.dat2.bytes, walk.file_size, walk.first_sector))
    => /\ raised # "IOError"
       /\ WalkEnded =>
            /\ Len(walk.buf) = walk.file_size
            /\ walk.buf = GroupBytes(fs.dat2.bytes, walk.file_size, walk.first_sector)
            /\ walk.chunk = CeilDiv(walk.file_size, DATA_SIZE)
            /\ walk.remaining = 0

\* A two-sector group of exactly 1024 bytes over two different sectors has
\* been reassembled.
C3_Witness ==
  /\ WalkEnded
  /\ WellFormed(fs.dat2.bytes, walk.file_size, walk.first_sector)
  /\ walk.file_size = 2 * DATA_SIZE
  /\ walk.chunk = 2
  /\ NthSector(fs.dat2.bytes, walk.first_sector, 2) # walk.first_sector

\* C9 as stated: a group of 1 <= L <= 512 bytes is returned after exactly one
\* sector read, whatever first_sector its index entry holds.
C9_OneSectorAnyFirst ==
  (WalkEnded /\ walk.file_size <= DATA_SIZE) => walk.chunk = 1

\* C9 amended: for 1 <= L <= 512 and first_sector # 0 the walk stops after
\* its first sector read whatever that sector's next pointer is, and the
\* buffer returned is the first L payload bytes of that one sector; with
\* first_sector = 0 no sector is read and the buffer returned is empty.
C9_OneSectorNonZeroFirst ==
  (pc = "walk" /\ walk.file_size <= DATA_SIZE)
    => /\ walk.chunk >= 1 => (walk.chunk = 1 /\ ~walk_continues(walk))
       /\ WalkEnded =>
            IF walk.first_sector # 0
            THEN /\ walk.chunk = 1
                 /\ walk.buf = GroupBytes(fs.dat2.bytes, walk.file_size, walk.first_sector)
            ELSE walk.chunk = 0 /\ walk.buf = <<>>

\* A group of at most 512 bytes has been read from one sector whose next
\* pointer is not 0.
C9_Witness ==
  /\ WalkEnded
  /\ walk.file_size <= DATA_SIZE
  /\ walk.first_sector # 0
  /\ walk.chunk = 1
  /\ walk.sector_id # 0

\* C10, the state part: in the loop len(buf) + remaining = L, the buffer
\* holds at most L bytes, at most ceil(L/512) sectors have been read, and a
\* further read is attempted only while fewer than that have been.
WalkInv ==
  pc = "walk" =>
    /\ Len(walk.buf) + walk.remaining = walk.file_size
    /\ Len(walk.buf) <= walk.file_size
    /\ walk.remaining >= 0
    /\ walk.chunk <= CeilDiv(walk.file_size, DATA_SIZE)
    /\ walk_continues(walk) => walk.chunk < CeilDiv(walk.file_size, DATA_SIZE)

\* C10, the step part: an iteration of the loop that does not raise reads one
\* more sector and strictly decreases remaining.
WalkDecreases ==
  (pc = "walk" /\ pc' = "walk" /\ walk' # walk)
    => /\ walk'.remaining < walk.remaining
       /\ walk'.chunk = walk.chunk + 1

\* C10: the chain walk keeps len(buf) + remaining = L, strictly decreases
\* remaining in every iteration and so ends after at most ceil(L/512) sector
\* reads with at most L bytes, whatever the next-sector pointers are (cycles
\* and self-pointers included).
C10_WalkTerminates == [](WalkInv) /\ [][WalkDecreases]_vars

\* The walk has gone twice round a sector that points at itself.
C10_Witness ==
  /\ WalkEnded
  /\ walk.chunk >= 2
  /\ walk.sector_id = walk.first_sector
  /\ NextOf(fs.dat2.bytes, walk.first_sector) = walk.first_sector

\* ------------------------------------------------------------------------
\* The codec family: one group in sector 1 whose bytes are a container of any
\* tag, any compressed-length and uncompressed-length field and any of a few
\* payloads, followed by one more byte, and cut by the index entry's length
\* at any of the places that matter (inside the header, at its end, inside
\* the payload, at the end).
Container(tag, comp_len, uncompressed_len, payload) ==
  <<tag>> \o u32(comp_len) \o (IF tag = 0 THEN <<>> ELSE u32(uncompressed_len)) \o payload

CodecTags == {0, 1, 2, 99}
CodecPayloads ==
  { <<>>, <<7>>, <<BZ_MAGIC, 2, 7>>, <<GZ_MAGIC, 3, 9>>, <<GZ_MAGIC, 1, 5, 2, 6>>,
    <<BZ_MAGIC, 0, 1>>, <<BZ_MAGIC, 1>> }
CodecCuts(n) == {c \in {1, 4, 5, 8, 9, n - 2, n - 1, n} : 1 <= c /\ c <= n}

InitCodec ==
  \/ \E tag \in CodecTags, c \in 0..MaxLenField, u \in 0..MaxLenField,
        p \in CodecPayloads :
       LET bytes == Container(tag, c, u, p) \o <<255>> IN
       \E L \in CodecCuts(Len(bytes)) :
         Start(Cache(Sector(0, <<>>) \o Sector(0, bytes),
                     [a \in Archives |-> IF a = 4 THEN File(IndexRecord(L, 1)) ELSE Absent]),
               DefaultArgs)
  \/ Start(NoDat2, DefaultArgs)

SpecCodec == InitCodec /\ [][Next]_vars

\* The big-endian 32-bit value of the 4 bytes of b from position i (from 1).
BE32(b, i) == b[i] * 16777216 + b[i + 1] * 65536 + b[i + 2] * 256 + b[i + 3]

\* The container extract_group has parsed (line 115) is the buffer the walk
\* returned.
Parsed == call.parsed

\* The header a buffer of at least 1 byte announces: 5 bytes, 9 with a tag
\* other than 0.
HeaderLen(b) == IF Len(b) >= 1 /\ b[1] # 0 THEN 9 ELSE 5

\* The result of parsing b is what the format says: the tag is byte 0, the
\* compressed length bytes [1:5] big-endian; with tag 0 the uncompressed
\* length is the compressed length and the payload is buf[5 : 5+compressed_len];
\* with any other tag the uncompressed length is bytes [5:9] (the second
\* field) and the payload is buf[9 : 9+compressed_len].  A container built
\* with tag 0, length K and K payload bytes parses back to (0, K, the bytes).
ParsedAsLaidOut(b) ==
  /\ Parsed.kind = "parsed"
  /\ Parsed.compression_type = b[1]
  /\ Parsed.uncompressed_len = (IF b[1] = 0 THEN BE32(b, 2) ELSE BE32(b, 6))
  /\ Parsed.payload =
       [i \in 1..Max(0, Min(BE32(b, 2), Len(b) - HeaderLen(b))) |-> b[HeaderLen(b) + i]]
  /\ \A p \in CodecPayloads :
       b = Container(0, Len(p), 0, p) =>
         /\ Parsed.compression_type = 0
         /\ Parsed.uncompressed_len = Len(p)
         /\ Parsed.payload = p

\* C5 as stated: every buffer given to parse_js5_container parses to the
\* tag, lengths and payload slice of the layout.
C5_EveryBufferParses ==
  Parsed.kind # "none" => ParsedAsLaidOut(walk.buf)

\* C5 amended: every buffer that holds its whole header (5 bytes, 9 when the
\* tag is not 0) parses to the tag, lengths and payload slice of the layout;
\* a shorter buffer makes parse_js5_container raise.
C5_HeaderParsing ==
  Parsed.kind # "none" =>
    IF Len(walk.buf) < HeaderLen(walk.buf) THEN Parsed.kind = "raise"
    ELSE ParsedAsLaidOut(walk.buf)

\* A gzip container whose two length fields differ has been parsed, and its
\* payload is not empty.
C5_Witness ==
  /\ Parsed.kind = "parsed"
  /\ Parsed.compression_type = 2
  /\ Parsed.uncompressed_len # BE32(walk.buf, 2)
  /\ Len(Parsed.payload) = BE32(walk.buf, 2)
  /\ Len(Parsed.payload) >= 1

\* What the decompressor of a supported tag makes of a payload.
Decoded(tag, payload) ==
  IF tag = 0 THEN [kind |-> "bytes", data |-> payload]
  ELSE IF tag = 1 THEN bz2_decompress(payload)
  ELSE gzip_decompress(payload)

\* C7: for a supported tag (0, 1, 2) and a payload that decompresses,
\* extract_group in non-raw mode returns the decompressed bytes unchanged and
\* raises nothing, whether or not their length is the declared uncompressed
\* length; a mismatch only prints the warning, and the bytes are what
\* dump_index writes.
C7_LenientLength ==
  (Parsed.kind = "parsed" /\ Parsed.compression_type \in {0, 1, 2}
     /\ Decoded(Parsed.compression_type, Parsed.payload).kind = "bytes")
    => /\ data.kind = "bytes"
       /\ data.data = Decoded(Parsed.compression_type, Parsed.payload).data
       /\ data.warned = (Len(data.data) # Parsed.uncompressed_len)
       /\ raised = "none"
       /\ fs.out[out_path(call.archive_id, call.group_id, FALSE)] = data.data

\* A bzip2 container has been decompressed to a non-empty result whose length
\* is not the declared one, and the result was returned with the warning.
C7_Witness ==
  /\ Parsed.kind = "parsed"
  /\ Parsed.compression_type = 1
  /\ data.kind = "bytes"
  /\ data.warned
  /\ Len(data.data) >= 1
  /\ Len(data.data) # Len(Parsed.payload)

\* ------------------------------------------------------------------------
\* The bulk family.  One data file: sector 1 a stored container, sector 2 a
\* container of the unsupported tag 99, sector 3 a gzip container whose
\* declared length is wrong.  Index records point at them, or hold length 0,
\* or point past the end of the data file.
BulkDat ==
  Sector(0, <<>>)
    \o Sector(0, Container(0, 2, 0, <<7, 8>>))
    \o Sector(0, Container(99, 1, 1, <<5>>))
    \o Sector(0, Container(2, 3, 5, <<GZ_MAGIC, 3, 9>>))

RecTomb == IndexRecord(0, 1)
RecStore == IndexRecord(7, 1)
RecBadTag == IndexRecord(10, 2)
RecGzip == IndexRecord(12, 3)
RecShort == IndexRecord(258, 4)
BulkRecords == {RecTomb, RecStore, RecBadTag, RecGzip, RecShort}

\* Index files of at most n records over a set of records.
IndexFiles(recs, n) == UNION { {Concat(rs) : rs \in [1..k -> recs]} : k \in 0..n }

\* Group ids up to one past the last record of the longest index file.
GroupIds == 0..(MaxGroup + 1)

BulkCache(idx4) ==
  Cache(BulkDat, [a \in Archives |-> IF a = 4 THEN File(idx4)
                                     ELSE IF a = 14 THEN File(RecGzip \o RecStore)
                                     ELSE Absent])

\* The ways of naming the groups on the command line (lines 189-200): --ids,
\* --start-id with or without --end-id, --all, or none of them.
ById == { [DefaultArgs EXCEPT !.ids = ids] :
            ids \in {<<a>> : a \in GroupIds} \cup {<<a, b>> : a \in GroupIds, b \in GroupIds} }
ByRange == { [DefaultArgs EXCEPT !.start_id = Some(a), !.end_id = e] :
               a \in -1..(MaxGroup + 1), e \in {None} \cup {Some(b) : b \in GroupIds} }
ByAll == { DefaultArgs, [DefaultArgs EXCEPT !.extract_all = TRUE] }

BulkIndices == { <<4>>, <<14, 4>>, <<4, 15, 4>> }

Init ==
  \* every index file, with and without a partial record at its end
  \/ \E idx4 \in IndexFiles(BulkRecords, MaxGroup + 1), tail \in {<<>>, <<0, 0, 7>>},
        a \in ByAll \cup {[DefaultArgs EXCEPT !.ids = <<g>>] : g \in 0..(MaxGroup + 2)},
        raw \in BOOLEAN :
       Start(BulkCache(idx4 \o tail), [a EXCEPT !.raw = raw])
  \* every command line, over the index files whose groups all extract
  \/ \E idx4 \in {Concat(rs) : rs \in [1..(MaxGroup + 1) -> {RecTomb, RecStore, RecGzip}]},
        a \in ById \cup ByRange \cup ByAll, ind \in BulkIndices, raw \in BOOLEAN :
       Start(BulkCache(idx4), [a EXCEPT !.indices = ind, !.raw = raw])
  \* no cache directory, no data file
  \/ \E a \in ByAll : Start(NoCache, a) \/ Start(NoDat2, a)

Spec == Init /\ [][Next]_vars

\* ------------------------------------------------------------------------
\* C1 as stated: an unsupported compression tag fails that group only; the
\* bulk run does not end there (the later group ids are still attempted and
\* dump_index returns its count).
C1_BadTagDoesNotEndRun ==
  (data.kind = "raise" /\ data.exc = "ValueError") => (pc # "exit" /\ raised = "none")

\* C2 as stated, for runs over group ids >= 0: the exit status is non-zero
\* exactly when the cache directory or the data file is missing, and zero in
\* every other run, whatever happens to individual groups.
C2_ExitStatus ==
  (pc = "exit" /\ call.group_id >= 0)
    => (status = IF ~fs.dir \/ ~fs.dat2.exists THEN Some(1) ELSE Some(0))

\* C4: read_index_entry returns None when fewer than 6 bytes exist at offset
\* group_id*6 or when the length decoded is 0, and otherwise (length,
\* first_sector), the 24-bit big-endian values of bytes [0:3] and [3:6] of
\* the record there; it raises nothing for a group id >= 0.
C4_IndexLookup ==
  (call.archive_id \in Archives /\ call.group_id >= 0) =>
    LET b == fs.idx[call.archive_id].bytes
        o == call.group_id * 6
    IN IF Len(b) < o + 6 THEN call.entry = [kind |-> "None"]
       ELSE LET length == b[o + 1] * 65536 + b[o + 2] * 256 + b[o + 3]
                first == b[o + 4] * 65536 + b[o + 5] * 256 + b[o + 6]
            IN IF length = 0 THEN call.entry = [kind |-> "None"]
               ELSE call.entry = [kind |-> "entry", file_size |-> length,
                                  first_sector |-> first]

\* A record of a group other than group 0 whose length 258 is bytes (0, 1, 2)
\* has been looked up.
C4_Witness ==
  /\ call.archive_id = 4
  /\ call.group_id >= 1
  /\ call.entry.kind = "entry"
  /\ call.entry.file_size = 258
  /\ call.entry.first_sector = 4

\* The group ids dump_index has attempted so far in the current call.
Attempted == SubSeq(ids_to_extract, 1, group_k - 1)

\* The output paths of the attempted groups that yield a buffer, in order.
RECURSIVE YieldedPaths(_)
YieldedPaths(ids) ==
  IF ids = <<>> THEN <<>>
  ELSE LET r == extract_group(fs, archive_id, Head(ids), args.raw) IN
       (IF r.kind = "bytes" THEN <<out_path(archive_id, Head(ids), args.raw)>> ELSE <<>>)
         \o YieldedPaths(Tail(ids))

\* C6, the state part.
BulkInv ==
  /\ pc \in {"groups", "walk"} =>
       /\ \A i, j \in 1..Len(ids_to_extract) : i < j => ids_to_extract[i] < ids_to_extract[j]
       /\ written = YieldedPaths(Attempted)
       /\ extracted = Len(written)
       /\ \A i, j \in 1..Len(written) : i < j => written[i] # written[j]
       /\ \A i \in 1..Len(written) :
            /\ written[i] \in DOMAIN fs.out
            /\ written[i][3] = (IF args.raw THEN ".bin" ELSE ".synth")
  /\ (pc = "indices" /\ archive_k > 1) =>
       /\ returned = Some(Len(written))
       /\ ~fs.idx[args.indices[archive_k - 1]].exists => (returned = Some(0) /\ written = <<>>)

\* C6, the step part: a group whose extraction yields absence is skipped and
\* the loop goes on to the next id; nothing is written for it.
BulkSkips ==
  (pc = "groups" /\ group_k <= Len(ids_to_extract)
     /\ extract_group(fs, archive_id, group_id, args.raw).kind = "None")
    => /\ pc' = "groups"
       /\ group_k' = group_k + 1
       /\ written' = written
       /\ extracted' = extracted
       /\ fs' = fs

\* C6: dump_index attempts the group ids in ascending order, skips a group
\* whose extraction yields absence without stopping, writes exactly one file
\* <group_id>.synth (.bin in raw mode) for each group that yields a buffer,
\* and returns the number of files it wrote; with the index file absent it
\* writes nothing and returns 0.
C6_BulkAccounting == [](BulkInv) /\ [][BulkSkips]_vars

\* A call of dump_index given the ids 1, 0 has attempted 0 then 1, skipped
\* group 0 (absent), written 1.synth for group 1 and returned 1.
C6_Witness ==
  /\ pc = "indices"
  /\ archive_k > 1
  /\ args.ids = <<1, 0>>
  /\ ids_to_extract = <<0, 1>>
  /\ returned = Some(1)
  /\ written = <<out_path(4, 1, FALSE)>>

\* C8, the step part: no step changes the cache.
CacheUnchanged ==
  /\ fs'.dir = fs.dir
  /\ fs'.dat2 = fs.dat2
  /\ fs'.idx = fs.idx

\* C8, the state part: every file written so far holds what extracting its
\* group from the cache gives now, and so does the last result returned.
ResultsRepeat ==
  /\ \A path \in DOMAIN fs.out :
       LET r == extract_group(fs, path[1], path[2], path[3] = ".bin") IN
       r.kind = "bytes" /\ r.data = fs.out[path]
  /\ (call.archive_id \in Archives /\ pc \in {"groups", "indices"}) =>
       LET r == extract_group(fs, call.archive_id, call.group_id, args.raw) IN
       /\ r.kind = data.kind
       /\ r.kind = "bytes" => r.data = data.data

\* C8: extractions, successful or failed, leave the data file and every index
\* file unchanged, so extracting a given (archive id, group id, raw flag)
\* gives the same result whatever ran before.
C8_ReadOnlyCache == [](ResultsRepeat) /\ [][CacheUnchanged]_vars

\* Archive 4 is being dumped a second time, after files were written, and a
\* group has just been extracted again.
C8_Witness ==
  /\ pc = "groups"
  /\ archive_k = 3
  /\ archive_id = 4
  /\ args.indices[1] = 4
  /\ extracted >= 1
  /\ data.kind = "bytes"

=============================================================================
